---- MODULE Spec2Model ----
(***************************************************************************)
(* A model of src/echonest/audio.py: the caching AudioAnalysis facade, the *)
(* AudioData sample buffer with getpieces and mix, and the AudioQuantum    *)
(* navigation methods.                                                     *)
(*                                                                         *)
(* Three state machines share the module, one per part of the file:        *)
(*   Spec       AudioAnalysis: attribute access and refreshCachedVariables *)
(*   SpecAudio  AudioData: construction, slicing, append, getpieces, mix   *)
(*   SpecNav    AudioQuantum: parent, children, group, prev, next,         *)
(*              local_context                                              *)
(***************************************************************************)
EXTENDS Integers, Sequences, FiniteSets, TLC

VARIABLES
  id,        \* AudioAnalysis.id: the track identifier
  parsers,   \* AudioAnalysis.parsers: cached variable name -> parse function
  cache,     \* the 14 cached attributes of the AudioAnalysis object
  fetched,   \* history: values stored in a field since it was last set to None
  nrefresh,  \* history: calls of refreshCachedVariables made so far
  last,      \* history: the last call on the AudioAnalysis and its outcome
  fmt,       \* sample rate and array layout of the audio of this run
  bufs,      \* the AudioData objects created so far, in order of creation
  nops,      \* history: AudioData calls made so far
  lastA,     \* history: the last AudioData operation, its operands and outcome
  world,     \* the analysis the AudioQuantum objects live in
  lastN      \* history: the last navigation call and its outcome

vars == <<id, parsers, cache, fetched, nrefresh, last, fmt, bufs, nops, lastA, world, lastN>>
analysisVars == <<id, parsers, cache, fetched, nrefresh, last>>
audioVars == <<fmt, bufs, nops, lastA>>
navVars == <<world, lastN>>

(***************************************************************************)
(* Bounds of the model.                                                    *)
(***************************************************************************)
NumAccessible == 2  \* attribute accesses name the first NumAccessible cached variables
MaxRefresh == 2     \* calls of refreshCachedVariables in one run
MaxLen == 2         \* rows of an array or shape given to the AudioData constructor
MaxOps == 3         \* AudioData calls (constructor, slice, append, getpieces, mix) in one run
Ticks == 2          \* ticks of the time grid in a second
MaxNodes == 2       \* quanta in a collection of the navigation machine
MaxStep == 2        \* prev and next are called with steps -MaxStep..MaxStep
MaxLead == 1        \* the beats and tatums of an analysis start at 0..MaxLead

\* "another two seconds just for goodwill": the rows getpieces allocates
\* beyond the summed durations.
GOODWILL == 100000

Max(a, b) == IF a >= b THEN a ELSE b
Min(a, b) == IF a <= b THEN a ELSE b

(***************************************************************************)
(* AudioAnalysis                                                           *)
(***************************************************************************)
CACHED_VARIABLES ==
  << "bars", "beats", "duration", "end_of_fade_in", "key", "loudness",
     "metadata", "mode", "sections", "segments", "start_of_fade_out",
     "tatums", "tempo", "time_signature" >>

Fields == { CACHED_VARIABLES[i] : i \in 1..Len(CACHED_VARIABLES) }

\* Python values held by attributes.  Every value is a record with a type.
NoneV == [type |-> "None"]
\* References held in container attributes.
Unset == [to |-> "unset"]          \* the attribute was never assigned
NoneRef == [to |-> "None"]
AnalysisRef == [to |-> "AudioAnalysis"]
ListRef(oid) == [to |-> "AudioQuantumList", oid |-> oid]

\* PARSERS, the file's mapping of cached variable name to parse function.
PARSERS ==
  [ name \in Fields |->
      CASE name = "bars" -> "barsParser"
        [] name = "beats" -> "beatsParser"
        [] name = "sections" -> "sectionsParser"
        [] name = "segments" -> "fullSegmentsParser"
        [] name = "tatums" -> "tatumsParser"
        [] name = "metadata" -> "metadataParser"
        [] name \in {"tempo", "duration", "loudness", "end_of_fade_in",
                     "start_of_fade_out"} -> "globalParserFloat"
        [] OTHER -> "globalParserInt" ]

\* parsers=None in the constructor: no variable has a parse function.
NoParsers == [ name \in Fields |-> "none" ]

\* The parsers LocalAudioFile and LocalAnalysis probe for an analysis with.
ProbeParsers ==
  [ name \in Fields |-> IF name = "duration" THEN "globalParserFloat" ELSE "none" ]

\* The remote analysis of a track: the number of nodes in each document
\* analyze.get_<name> returns, and the start of node i of a tag, counted
\* from the start (lead) of the first node of the document.
Tracks == {"silence", "song"}
Nodes(track) == IF track = "silence" THEN 0 ELSE 2
Period(tag) ==
  CASE tag = "tatum" -> 1 [] tag = "beat" -> 2 [] tag = "bar" -> 4
    [] tag = "section" -> 8 [] OTHER -> 1
NodeStart(tag, i) == (i - 1) * Period(tag)
HasConfidence(name) == name \in {"tempo", "key", "mode", "time_signature"}

\* analyze.get_<name>(id): the document the service answers with.  resp is
\* "ok" (a well-formed document) or "malformed".
Getter(name, track, resp) ==
  [type |-> "doc", name |-> name, nodes |-> Nodes(track), lead |-> 0,
   wellformed |-> (resp = "ok")]

\* AudioQuantum(start, duration, kind, confidence): no container attribute.
AudioQuantum(start, duration, kind) ==
  [start |-> start, duration |-> duration, kind |-> kind, container |-> Unset]

\* AudioQuantumList(kind): an empty list, container None.
AudioQuantumList(oid, kind, items) ==
  [type |-> "AudioQuantumList", oid |-> oid, kind |-> kind,
   container |-> NoneRef, items |-> items]

\* dataParser(tag, doc): one quantum per node; each duration runs to the next
\* start, the last duration is the one before it, a lone quantum keeps 0.
dataParser(tag, doc, oid) ==
  LET n == doc.nodes
      gap(i) == NodeStart(tag, i + 1) - NodeStart(tag, i)
      dur(i) == IF n > 1 THEN (IF i < n THEN gap(i) ELSE gap(n - 1)) ELSE 0
  IN AudioQuantumList(oid, tag,
       [i \in 1..n |-> AudioQuantum(doc.lead + NodeStart(tag, i), dur(i), tag)])

\* attributeParser(tag, doc) and fullSegmentsParser(doc): start and duration
\* are read from each node (the segment features are not modelled).
attributeParser(tag, doc, oid) ==
  AudioQuantumList(oid, tag,
    [i \in 1..doc.nodes |->
       AudioQuantum(doc.lead + NodeStart(tag, i), Period(tag), tag)])

\* globalParserFloat / globalParserInt: the number, with its confidence in a
\* tuple when the node carries one.
globalParser(type, doc) ==
  IF HasConfidence(doc.name)
  THEN [type |-> "tuple", v |-> doc.nodes, confidence |-> 1]
  ELSE [type |-> type, v |-> doc.nodes]

metadataParser(doc) == [type |-> "dict", size |-> doc.nodes]

\* parseFunction(value) for a well-formed document.
Parse(parseFunction, doc, oid) ==
  CASE parseFunction = "barsParser" -> dataParser("bar", doc, oid)
    [] parseFunction = "beatsParser" -> dataParser("beat", doc, oid)
    [] parseFunction = "tatumsParser" -> dataParser("tatum", doc, oid)
    [] parseFunction = "sectionsParser" -> attributeParser("section", doc, oid)
    [] parseFunction = "fullSegmentsParser" -> attributeParser("segment", doc, oid)
    [] parseFunction = "metadataParser" -> metadataParser(doc)
    [] parseFunction = "globalParserFloat" -> globalParser("float", doc)
    [] parseFunction = "globalParserInt" -> globalParser("int", doc)

\* Python truth value of a stored value.
Truthy(v) ==
  CASE v.type = "None" -> FALSE
    [] v.type = "AudioQuantumList" -> Len(v.items) > 0
    [] v.type \in {"float", "int"} -> v.v # 0
    [] v.type = "dict" -> v.size > 0
    [] OTHER -> TRUE

\* A mutant of attach: the members' back-references are not set.
attachListOnly(list, container) ==
  [list EXCEPT !.container = container]

\* AudioQuantumList.attach(container).
attach(list, container) ==
  [list EXCEPT !.container = container,
               !.items = [i \in 1..Len(list.items) |->
                            [list.items[i] EXCEPT !.container = ListRef(list.oid)]]]

\* A mutant of the test of line 127: any false value counts as not fetched.
IsUnfetchedFalsy(v) == ~Truthy(v)

\* "object.__getattribute__(self, name) is None"
IsUnfetched(v) == v = NoneV

Outcome(c, raised, err, calls, stored, ret) ==
  [cache |-> c, raised |-> raised, err |-> err, calls |-> calls,
   stored |-> stored, ret |-> ret]

\* A mutant of __getattribute__: the document is stored before it is parsed.
GetAttributeStoreFirst(c, epoch, name, resp) ==
  IF name \in Fields /\ IsUnfetched(c[name])
  THEN IF resp = "error"
       THEN Outcome(c, TRUE, "fetch", 1, FALSE, NoneV)
       ELSE LET value == Getter(name, id, resp)
                parseFunction == parsers[name]
                c1 == [c EXCEPT ![name] = value]
            IN IF parseFunction # "none" /\ ~value.wellformed
               THEN Outcome(c1, TRUE, "parse", 1, TRUE, NoneV)
               ELSE LET parsed == IF parseFunction # "none"
                                  THEN Parse(parseFunction, value, [field |-> name, epoch |-> epoch]) ELSE value
                        isList == parsed.type = "AudioQuantumList"
                        stored == IF isList THEN attach(parsed, AnalysisRef) ELSE parsed
                    IN Outcome([c EXCEPT ![name] = stored],
                               FALSE, "none", 1, TRUE, stored)
  ELSE Outcome(c, FALSE, "none", 0, FALSE, IF name \in Fields THEN c[name] ELSE NoneV)

\* AudioAnalysis.__getattribute__(name) on the attributes c.  resp is what the
\* service does if asked: "error" (the getter raises), "malformed" (it
\* answers a document no parse function accepts) or "ok".  The outcome holds
\* the attributes afterwards, whether the call raised, the number of getter
\* calls made, and the value returned.
GetAttribute(c, epoch, name, resp) ==
  IF name \in Fields /\ IsUnfetched(c[name])
  THEN IF resp = "error"
       THEN Outcome(c, TRUE, "fetch", 1, FALSE, NoneV)
       ELSE LET value == Getter(name, id, resp)
                parseFunction == parsers[name]
            IN IF parseFunction # "none" /\ ~value.wellformed
               THEN Outcome(c, TRUE, "parse", 1, FALSE, NoneV)
               ELSE LET parsed == IF parseFunction # "none"
                                  THEN Parse(parseFunction, value, [field |-> name, epoch |-> epoch]) ELSE value
                        isList == parsed.type = "AudioQuantumList"
                        stored == IF isList THEN attach(parsed, AnalysisRef) ELSE parsed
                    IN Outcome([c EXCEPT ![name] = stored],
                               FALSE, "none", 1, TRUE, stored)
  ELSE Outcome(c, FALSE, "none", 0, FALSE, IF name \in Fields THEN c[name] ELSE NoneV)

NoCalls == [f \in Fields |-> 0]

\* A mutant of the loop body of refreshCachedVariables: the field is not reset.
RefreshOneNoReset(st, name, resp) ==
  LET r == GetAttribute(st.cache, st.epoch, name, resp)
  IN [cache |-> r.cache, epoch |-> st.epoch, raised |-> r.raised, err |-> r.err,
      fetched |-> [st.fetched EXCEPT ![name] = @ + (IF r.stored THEN 1 ELSE 0)],
      rcalls |-> [st.rcalls EXCEPT ![name] = @ + r.calls]]

\* One iteration of refreshCachedVariables: set the field to None, then read it.
RefreshOne(st, name, resp) ==
  LET c1 == [st.cache EXCEPT ![name] = NoneV]
      r == GetAttribute(c1, st.epoch, name, resp)
  IN [cache |-> r.cache, epoch |-> st.epoch, raised |-> r.raised, err |-> r.err,
      fetched |-> [st.fetched EXCEPT ![name] = IF r.stored THEN 1 ELSE 0],
      rcalls |-> [st.rcalls EXCEPT ![name] = @ + r.calls]]

\* The loop of refreshCachedVariables from field i on; the service fails, the
\* way resp says, when field failAt is fetched (failAt = 0: it never fails).
\* An exception leaves the loop.
RECURSIVE RefreshLoop(_, _, _, _)
RefreshLoop(st, i, failAt, resp) ==
  IF i > Len(CACHED_VARIABLES) \/ st.raised
  THEN st
  ELSE RefreshLoop(RefreshOne(st, CACHED_VARIABLES[i], IF i = failAt THEN resp ELSE "ok"),
                   i + 1, failAt, resp)

\* AudioAnalysis(audio, parsers) with a track ID: every cached variable None.
InitAnalysis ==
  /\ id \in Tracks
  /\ parsers \in {NoParsers, PARSERS, ProbeParsers}
  /\ cache = [f \in Fields |-> NoneV]
  /\ fetched = NoCalls
  /\ nrefresh = 0
  /\ last = [op |-> "init", name |-> "", pre |-> NoneV, ret |-> NoneV,
             raised |-> FALSE, err |-> "none", calls |-> 0, rcalls |-> NoCalls]

AccessNames == { CACHED_VARIABLES[i] : i \in 1..NumAccessible } \cup {"id"}

\* analysis.<name>: one attribute access.
Access(name, resp) ==
  LET r == GetAttribute(cache, nrefresh, name, resp)
  IN /\ cache' = r.cache
     /\ fetched' = IF r.stored THEN [fetched EXCEPT ![name] = @ + 1] ELSE fetched
     /\ last' = [op |-> "access", name |-> name,
                 pre |-> IF name \in Fields THEN cache[name] ELSE NoneV,
                 ret |-> r.ret, raised |-> r.raised, err |-> r.err,
                 calls |-> r.calls, rcalls |-> NoCalls]
     /\ UNCHANGED <<id, parsers, nrefresh>>

\* analysis.refreshCachedVariables()
Refresh(failAt, resp) ==
  /\ nrefresh < MaxRefresh
  /\ LET st0 == [cache |-> cache, epoch |-> nrefresh + 1, raised |-> FALSE, err |-> "none",
                 fetched |-> fetched, rcalls |-> NoCalls]
         st == RefreshLoop(st0, 1, failAt, resp)
     IN /\ cache' = st.cache
        /\ fetched' = st.fetched
        /\ last' = [op |-> "refresh", name |-> "", pre |-> NoneV, ret |-> NoneV,
                    raised |-> st.raised, err |-> st.err, calls |-> 0,
                    rcalls |-> st.rcalls]
  /\ nrefresh' = nrefresh + 1
  /\ UNCHANGED <<id, parsers>>

Responses == {"ok", "error", "malformed"}

(***************************************************************************)
(* AudioData                                                               *)
(*                                                                         *)
(* A numpy array of int16 rows is a record: its first rows one by one      *)
(* (head), then pad rows that all hold the value fill.  cols is 0 for a    *)
(* 1-D array of shape (n,), and the channel count c for shape (n, c); a    *)
(* row of a 2-D array is modelled by one number, the sample every channel  *)
(* of that row holds.                                                      *)
(***************************************************************************)
Rows(a) == Len(a.head) + a.pad

\* a[i], i counted from 1
At(a, i) == IF i <= Len(a.head) THEN a.head[i] ELSE a.fill

\* int16 arithmetic wraps.
Wrap16(x) == ((x + 32768) % 65536) - 32768

\* C conversion of the float x = n/d to an integer: towards zero.
TruncDiv(n, d) == IF n >= 0 THEN n \div d ELSE -((-n) \div d)

\* The array of n rows whose row i is f[i] for i <= e and fill after that, in
\* its one representation: fill is the value of the last row, and head ends
\* where the run of rows holding that value begins.
RECURSIVE Significant(_, _, _)
Significant(f, e, fill) ==
  IF e = 0 \/ f[e] # fill THEN e ELSE Significant(f, e - 1, fill)

Pack(f, e, n, fill, cols) ==
  LET tail == IF n = 0 THEN 0 ELSE IF e < n THEN fill ELSE f[n]
      k == Significant(f, Min(e, n), tail)
  IN [type |-> "ndarray", head |-> [i \in 1..k |-> f[i]], pad |-> n - k,
      fill |-> tail, cols |-> cols]

\* numpy.zeros(shape, dtype=numpy.int16)
Zeros(n, cols) == Pack(<<>>, 0, n, 0, cols)

\* numpy.array(values)
FromSeq(values, cols) == Pack(values, Len(values), Len(values), 0, cols)

\* The bounds of the Python slice [lo:hi] on n rows, for lo, hi >= 0.
SliceLo(lo, n) == Min(lo, n)
SliceLen(lo, hi, n) == Max(0, Min(hi, n) - Min(lo, n))

\* a[lo:hi], read
SliceRead(a, lo, hi) ==
  LET n == Rows(a)
      from == SliceLo(lo, n)
      len == SliceLen(lo, hi, n)
      e == Max(0, Min(from + len, Len(a.head)) - from)
  IN Pack([i \in 1..e |-> a.head[from + i]], e, len, a.fill, a.cols)

\* numpy broadcasting of src's rows onto a slice of len rows: the row counts
\* are equal, or src has one row, which every row of the slice takes.
Broadcasts(src, len) == Rows(src) = len \/ Rows(src) = 1

\* a[lo:hi] = src, for a src that broadcasts: the array afterwards.
SliceAssign(a, lo, hi, src) ==
  LET n == Rows(a)
      from == SliceLo(lo, n)
      len == SliceLen(lo, hi, n)
      same == Rows(src) = len
      srcAt(i) == IF same THEN At(src, i) ELSE At(src, 1)
      srcHead == IF same THEN Len(src.head) ELSE 0
      srcFill == IF same THEN src.fill ELSE At(src, 1)
      fill == IF from + len = n THEN srcFill ELSE a.fill
      e == IF len = 0 THEN Len(a.head)
           ELSE Min(n, Max(Max(Len(a.head), from + srcHead),
                           Max(IF a.fill # fill THEN from ELSE 0,
                               IF srcFill # fill THEN from + len ELSE 0)))
      row(i) == IF from < i /\ i <= from + len THEN srcAt(i - from) ELSE At(a, i)
  IN IF len = 0 THEN a
     ELSE Pack([i \in 1..e |-> row(i)], e, n, fill, a.cols)

\* a[lo:hi] + src, the right-hand side of a[lo:hi] += src, in int16.
SliceSum(a, lo, hi, src) ==
  LET part == SliceRead(a, lo, hi)
      len == Rows(part)
      same == Rows(src) = len
      srcAt(i) == IF same THEN At(src, i) ELSE At(src, 1)
      e == IF same THEN Max(Len(part.head), Len(src.head)) ELSE Len(part.head)
  IN Pack([i \in 1..e |-> Wrap16(At(part, i) + srcAt(i))], e, len,
          Wrap16(part.fill + (IF same THEN src.fill ELSE At(src, 1))), a.cols)

\* a *= num/den in place: the float products are cast back to int16.
Scale(a, num, den) ==
  Pack([i \in 1..Len(a.head) |-> TruncDiv(a.head[i] * num, den)], Len(a.head),
       Rows(a), TruncDiv(a.fill * num, den), a.cols)

\* An AudioData object.
Buffer(data, endindex, sampleRate, numChannels) ==
  [data |-> data, endindex |-> endindex, sampleRate |-> sampleRate,
   numChannels |-> numChannels]

\* AudioData(ndarray=..., shape=..., sampleRate=..., numChannels=...), lines
\* 174-187, without a filename: ndarray and shape are NoneV when not given.
NewAudioData(ndarray, shape, sampleRate, numChannels) ==
  LET zeros == IF shape = NoneV /\ ndarray # NoneV
               THEN Zeros(Rows(ndarray), ndarray.cols)
               ELSE IF shape # NoneV THEN Zeros(shape.rows, shape.cols)
               ELSE NoneV
  IN IF ndarray = NoneV
     THEN Buffer(zeros, 0, sampleRate, numChannels)
     ELSE Buffer(SliceAssign(zeros, 0, Rows(ndarray), ndarray), Rows(ndarray),
                 sampleRate, numChannels)

\* A mutant of __len__: the logical length.
LenEndindex(b) == IF b.data # NoneV THEN b.endindex ELSE 0

\* AudioData.__len__
BufLen(b) == IF b.data # NoneV THEN Rows(b.data) ELSE 0

\* self.append(as2), on the objects bs[self] and bs[as2]: the slice
\* assignment of line 239 raises when as2's rows do not broadcast (or when
\* either array is None), and then endindex is not advanced.
AppendTo(b, as2) ==
  IF b.data = NoneV \/ as2.data = NoneV
     \/ ~Broadcasts(as2.data, SliceLen(b.endindex, b.endindex + BufLen(as2), Rows(b.data)))
  THEN [buf |-> b, raised |-> TRUE]
  ELSE [buf |-> [b EXCEPT !.data = SliceAssign(b.data, b.endindex,
                                               b.endindex + BufLen(as2), as2.data),
                          !.endindex = b.endindex + BufLen(as2)],
        raised |-> FALSE]

\* Times are floats that are whole numbers of ticks; Ticks ticks make a second.
\* int(t * sampleRate) for a time t >= 0.
ToSample(t, sampleRate) == (t * sampleRate) \div Ticks

\* The slice of sample rows that self[index] reads, lines 193-213.  An index
\* is a slice of two ints, a slice of two floats (times), or an object with
\* start and duration (a quantum, whose times are floats).
IndexSlice(b, index) ==
  CASE index.kind = "ints" -> [start |-> index.start, stop |-> index.stop]
    [] index.kind = "times" ->
         [start |-> ToSample(index.start, b.sampleRate),
          stop |-> ToSample(index.stop, b.sampleRate)]
    [] index.kind = "quantum" ->
         [start |-> ToSample(index.start, b.sampleRate),
          stop |-> ToSample(index.start + index.duration, b.sampleRate)]

\* A mutant of getslice: the slice of a quantum is cut from the sample count
\* of its start and the sample count of its duration.
GetSliceByDuration(b, index) ==
  LET start == ToSample(index.start, b.sampleRate)
      len == IF index.kind = "quantum" THEN ToSample(index.duration, b.sampleRate)
             ELSE IndexSlice(b, index).stop - start
  IN NewAudioData(SliceRead(b.data, start, start + len), NoneV, b.sampleRate, NoneV)

\* self[index] for the index forms above, on a buffer with data: __getitem__
\* and getslice.  The new AudioData holds a copy of the rows.
GetSlice(b, index) ==
  LET sl == IndexSlice(b, index)
  IN NewAudioData(SliceRead(b.data, sl.start, sl.stop), NoneV, b.sampleRate, NoneV)

RECURSIVE SumDur(_, _)
SumDur(segs, sampleRate) ==
  IF segs = <<>> THEN 0
  ELSE ToSample(Head(segs).duration, sampleRate) + SumDur(Tail(segs), sampleRate)

\* The loop of lines 347-348: append audioData[s] for each s, in order.  An
\* append that raises ends it.
RECURSIVE AppendPieces(_, _, _)
AppendPieces(acc, audioData, segs) ==
  IF segs = <<>> \/ acc.raised THEN acc
  ELSE AppendPieces(
         AppendTo(acc.buf, GetSlice(audioData, [kind |-> "quantum",
                                                start |-> Head(segs).start,
                                                duration |-> Head(segs).duration])),
         audioData, Tail(segs))

\* getpieces(audioData, segs) on a buffer with data.
GetPieces(audioData, segs) ==
  LET dur == SumDur(segs, audioData.sampleRate) + GOODWILL
      cols == audioData.data.cols
      newchans == IF cols > 0 THEN cols ELSE 1
      newAD == NewAudioData(NoneV, [rows |-> dur, cols |-> cols],
                            audioData.sampleRate, newchans)
  IN AppendPieces([buf |-> newAD, raised |-> FALSE], audioData, segs)

\* mix(audioDataA, audioDataB, mix) with mix = num/den.  The outcome holds
\* both objects afterwards and which of the two is returned.
Mix(a, b, num, den) ==
  IF a.data = NoneV THEN [a |-> a, b |-> b, raised |-> TRUE, ret |-> "none"]
  ELSE LET a1 == [a EXCEPT !.data = Scale(a.data, num, den)]
       IN IF b.data = NoneV THEN [a |-> a1, b |-> b, raised |-> TRUE, ret |-> "none"]
          ELSE LET b1 == [b EXCEPT !.data = Scale(b.data, den - num, den)]
                   fail == [a |-> a1, b |-> b1, raised |-> TRUE, ret |-> "none"]
               IN IF a.endindex > b.endindex
                  THEN IF Broadcasts(b1.data, SliceLen(0, b.endindex, Rows(a1.data)))
                       THEN [a |-> [a1 EXCEPT !.data =
                                      SliceAssign(a1.data, 0, b.endindex,
                                        SliceSum(a1.data, 0, b.endindex, b1.data))],
                             b |-> b1, raised |-> FALSE, ret |-> "A"]
                       ELSE fail
                  ELSE IF b.endindex > a.endindex
                  THEN IF Broadcasts(a1.data, SliceLen(0, a.endindex, Rows(b1.data)))
                       THEN [a |-> a1,
                             b |-> [b1 EXCEPT !.data =
                                      SliceAssign(b1.data, 0, a.endindex,
                                        SliceSum(b1.data, 0, a.endindex, a1.data))],
                             raised |-> FALSE, ret |-> "B"]
                       ELSE fail
                  ELSE IF Broadcasts(b1.data, Rows(a1.data))
                       THEN [a |-> [a1 EXCEPT !.data =
                                      SliceAssign(a1.data, 0, Rows(a1.data),
                                        SliceSum(a1.data, 0, Rows(a1.data), b1.data))],
                             b |-> b1, raised |-> FALSE, ret |-> "A"]
                       ELSE fail

\* The inputs tried.
Rates == {1, 3}
Layouts == {0, 2}
Ramp(n) == [i \in 1..n |-> 4 * i - 7]
Arrays == { FromSeq(Ramp(n), fmt.cols) : n \in 0..MaxLen }
Shapes == { [rows |-> n, cols |-> fmt.cols] : n \in 0..MaxLen }
SegLists == { <<>>,
              << [start |-> 1, duration |-> 1] >>,
              << [start |-> 0, duration |-> 3] >>,
              << [start |-> 1, duration |-> 1], [start |-> 0, duration |-> 1] >> }
Indexes == { [kind |-> "ints", start |-> 0, stop |-> 1],
             [kind |-> "times", start |-> 1, stop |-> 4],
             [kind |-> "quantum", start |-> 1, duration |-> 1] }
Mixes == { [num |-> 1, den |-> 2], [num |-> 1, den |-> 1] }

InitAudio ==
  /\ fmt \in [sampleRate : Rates, cols : Layouts]
  /\ bufs = <<>>
  /\ nops = 0
  /\ lastA = [op |-> "init"]

Slots == 1..Len(bufs)

\* AudioData(ndarray=a, sampleRate=..., numChannels=...)
ConstructFromArray(a) ==
  /\ nops < MaxOps
  /\ bufs' = Append(bufs, NewAudioData(a, NoneV, fmt.sampleRate,
                                       IF fmt.cols > 0 THEN fmt.cols ELSE 1))
  /\ lastA' = [op |-> "construct", ret |-> Len(bufs) + 1, raised |-> FALSE]
  /\ nops' = nops + 1
  /\ UNCHANGED fmt

\* AudioData(shape=sh, sampleRate=..., numChannels=...)
ConstructFromShape(sh) ==
  /\ nops < MaxOps
  /\ bufs' = Append(bufs, NewAudioData(NoneV, sh, fmt.sampleRate,
                                       IF fmt.cols > 0 THEN fmt.cols ELSE 1))
  /\ lastA' = [op |-> "construct", ret |-> Len(bufs) + 1, raised |-> FALSE]
  /\ nops' = nops + 1
  /\ UNCHANGED fmt

\* AudioData(): no array at all
ConstructEmpty ==
  /\ nops < MaxOps
  /\ bufs' = Append(bufs, NewAudioData(NoneV, NoneV, fmt.sampleRate, NoneV))
  /\ lastA' = [op |-> "construct", ret |-> Len(bufs) + 1, raised |-> FALSE]
  /\ nops' = nops + 1
  /\ UNCHANGED fmt

\* bufs[i][index]
Slice(i, index) ==
  /\ nops < MaxOps
  /\ IF bufs[i].data = NoneV
     THEN /\ bufs' = bufs
          /\ lastA' = [op |-> "slice", self |-> i, index |-> index, ret |-> 0,
                       raised |-> TRUE]
     ELSE /\ bufs' = Append(bufs, GetSlice(bufs[i], index))
          /\ lastA' = [op |-> "slice", self |-> i, index |-> index,
                       ret |-> Len(bufs) + 1, raised |-> FALSE]
  /\ nops' = nops + 1
  /\ UNCHANGED fmt

\* bufs[i].append(bufs[j])
DoAppend(i, j) ==
  /\ i # j
  /\ nops < MaxOps
  /\ LET r == AppendTo(bufs[i], bufs[j])
     IN /\ bufs' = [bufs EXCEPT ![i] = r.buf]
        /\ lastA' = [op |-> "append", self |-> i, other |-> j, ret |-> 0,
                     raised |-> r.raised]
  /\ nops' = nops + 1
  /\ UNCHANGED fmt

\* getpieces(bufs[i], segs)
DoGetPieces(i, segs) ==
  /\ nops < MaxOps
  /\ IF bufs[i].data = NoneV
     THEN /\ bufs' = bufs
          /\ lastA' = [op |-> "getpieces", self |-> i, segs |-> segs, ret |-> 0,
                       raised |-> TRUE]
     ELSE LET r == GetPieces(bufs[i], segs)
          IN /\ bufs' = IF r.raised THEN bufs ELSE Append(bufs, r.buf)
             /\ lastA' = [op |-> "getpieces", self |-> i, segs |-> segs,
                          ret |-> IF r.raised THEN 0 ELSE Len(bufs) + 1,
                          raised |-> r.raised]
  /\ nops' = nops + 1
  /\ UNCHANGED fmt

\* mix(bufs[i], bufs[j], m.num/m.den)
DoMix(i, j, m) ==
  /\ i # j
  /\ nops < MaxOps
  /\ LET r == Mix(bufs[i], bufs[j], m.num, m.den)
     IN /\ bufs' = [bufs EXCEPT ![i] = r.a, ![j] = r.b]
        /\ lastA' = [op |-> "mix", self |-> i, other |-> j, mix |-> m,
                     ret |-> IF r.ret = "A" THEN i ELSE IF r.ret = "B" THEN j ELSE 0,
                     raised |-> r.raised]
  /\ nops' = nops + 1
  /\ UNCHANGED fmt

NextAudio ==
  \/ \E a \in Arrays : ConstructFromArray(a) /\ UNCHANGED <<analysisVars, navVars>>
  \/ \E sh \in Shapes : ConstructFromShape(sh) /\ UNCHANGED <<analysisVars, navVars>>
  \/ ConstructEmpty /\ UNCHANGED <<analysisVars, navVars>>
  \/ \E i \in Slots, index \in Indexes :
       Slice(i, index) /\ UNCHANGED <<analysisVars, navVars>>
  \/ \E i \in Slots, j \in Slots : DoAppend(i, j) /\ UNCHANGED <<analysisVars, navVars>>
  \/ \E i \in Slots, segs \in SegLists :
       DoGetPieces(i, segs) /\ UNCHANGED <<analysisVars, navVars>>
  \/ \E i \in Slots, j \in Slots, m \in Mixes :
       DoMix(i, j, m) /\ UNCHANGED <<analysisVars, navVars>>

(***************************************************************************)
(* AudioQuantum navigation                                                 *)
(*                                                                         *)
(* world maps "sections", "bars", "beats" and "tatums" to the attached     *)
(* collection the AudioAnalysis holds, or to None for a field that is not  *)
(* cached while the service is down: reading it raises.  A quantum is      *)
(* named by the collection it is a member of and its place there, with its *)
(* attributes in obj; a quantum that is in no collection has in = "".      *)
(***************************************************************************)
NavFields == {"sections", "bars", "beats", "tatums"}

Member(f, i) == [in |-> f, at |-> i, obj |-> world[f].items[i]]
Loose(kind, container) ==
  [in |-> "", at |-> 0,
   obj |-> [AudioQuantum(1, 2, kind) EXCEPT !.container = container]]

End(o) == o.start + o.duration

\* selection.overlap(q) applied to x
overlap(x, q) == x.start < End(q) /\ End(x) > q.start

\* selection.are_contained_by(q) applied to x
are_contained_by(x, q) == q.start <= x.start /\ End(x) <= End(q)

\* AudioQuantumList.that(filt), for the collection of field f: the members
\* the filter keeps, in order.
RECURSIVE thatFrom(_, _, _, _)
thatFrom(f, i, filt, q) ==
  IF i > Len(world[f].items) THEN <<>>
  ELSE LET x == world[f].items[i]
           keep == IF filt = "overlap" THEN overlap(x, q) ELSE are_contained_by(x, q)
       IN (IF keep THEN <<Member(f, i)>> ELSE <<>>) \o thatFrom(f, i + 1, filt, q)

that(f, filt, q) == thatFrom(f, 1, filt, q)

pars == [tatum |-> "beats", beat |-> "bars", bar |-> "sections"]
chils == [beat |-> "tatums", bar |-> "beats", section |-> "bars"]

\* getattr(self.container.container, table[self.kind]) of parent() and
\* children(): the field read, or "" when the expression raises.
Related(q, table) ==
  IF q.obj.container.to # "AudioQuantumList" THEN ""
  ELSE IF world[q.obj.container.oid.field].container # AnalysisRef THEN ""
  ELSE IF q.obj.kind \notin DOMAIN table THEN ""
  ELSE IF world[table[q.obj.kind]] = NoneV THEN ""
  ELSE table[q.obj.kind]

RetQuantum(r) ==
  [raised |-> FALSE, exc |-> "", type |-> "AudioQuantum", q |-> r, items |-> <<>>]
RetList(items) ==
  [raised |-> FALSE, exc |-> "", type |-> "AudioQuantumList", q |-> NoneV, items |-> items]
Raise(exc) == [raised |-> TRUE, exc |-> exc, type |-> "", q |-> NoneV, items |-> <<>>]

\* AudioQuantum.parent()
parent(q) ==
  LET uppers == Related(q, pars)
  IN IF uppers = "" THEN RetQuantum(q)
     ELSE LET found == that(uppers, "overlap", q.obj)
          IN IF found = <<>> THEN Raise("IndexError") ELSE RetQuantum(found[1])

\* AudioQuantum.children()
children(q) ==
  LET downers == Related(q, chils)
  IN IF downers = "" THEN RetQuantum(q)
     ELSE RetList(that(downers, "are_contained_by", q.obj))

\* group.index(self) on the container of q, counted from 1: 0 when it raises.
\* Quanta are equal only to themselves.
IndexInContainer(q) ==
  IF q.obj.container.to # "AudioQuantumList" THEN 0
  ELSE IF q.in = q.obj.container.oid.field THEN q.at ELSE 0

\* group[new] for a Python index new on the collection of field f, inside
\* the try of prev() and next().
GetItem(q, f, new) ==
  LET n == Len(world[f].items)
  IN IF new >= n \/ new < -n THEN RetQuantum(q)
     ELSE RetQuantum(Member(f, (IF new >= 0 THEN new ELSE n + new) + 1))

\* AudioQuantum.prev(step)
prev(q, step) ==
  IF q.obj.container = Unset THEN Raise("AttributeError")
  ELSE LET loc == IndexInContainer(q) - 1
       IN IF loc < 0 THEN RetQuantum(q)
          ELSE GetItem(q, q.obj.container.oid.field, Max(loc - step, 0))

\* AudioQuantum.next(step)
next(q, step) ==
  IF q.obj.container = Unset THEN Raise("AttributeError")
  ELSE LET loc == IndexInContainer(q) - 1
       IN IF loc < 0 THEN RetQuantum(q)
          ELSE LET f == q.obj.container.oid.field
               IN GetItem(q, f, Min(loc + step, Len(world[f].items)))

RetNone == [raised |-> FALSE, exc |-> "", type |-> "None", q |-> NoneV, items |-> <<>>]
RetTuple(t) == [raised |-> FALSE, exc |-> "", type |-> "tuple", q |-> NoneV, items |-> t]

\* self.container as a value: the members of the collection, in order.
Container(q) ==
  IF q.obj.container = Unset THEN Raise("AttributeError")
  ELSE IF q.obj.container = NoneRef THEN RetNone
  ELSE LET f == q.obj.container.oid.field
       IN RetList([i \in 1..Len(world[f].items) |-> Member(f, i)])

\* AudioQuantum.group()
group(q) ==
  IF q.obj.kind \in {"tatum", "beat", "bar"}
  THEN LET p == parent(q) IN IF p.raised THEN p ELSE children(p.q)
  ELSE Container(q)

\* len(group) and group.index(self), index counted from 0, for the value g
\* a call returned.
Context(q, g) ==
  IF g.raised THEN g
  ELSE IF g.type # "AudioQuantumList" THEN Raise("TypeError")
  ELSE IF \A i \in 1..Len(g.items) : g.items[i] # q THEN Raise("ValueError")
  ELSE RetTuple(<<(CHOOSE i \in 1..Len(g.items) : g.items[i] = q) - 1, Len(g.items)>>)

\* AudioQuantum.local_context()
local_context(q) == Context(q, group(q))

\* The collection the parse function of field f makes of a document of n
\* nodes that begins at lead, attached to the AudioAnalysis.
Fetched(f, n, lead) ==
  attach(Parse(PARSERS[f],
               [type |-> "doc", name |-> f, nodes |-> n, lead |-> lead,
                wellformed |-> TRUE],
               [field |-> f, epoch |-> 0]),
         AnalysisRef)

InitNav ==
  /\ \E count \in [NavFields -> (-1)..MaxNodes], lead \in 0..MaxLead :
       world = [f \in NavFields |->
                  IF count[f] < 0 THEN NoneV
                  ELSE Fetched(f, count[f],
                               IF f \in {"beats", "tatums"} THEN lead ELSE 0)]
  /\ lastN = [op |-> "init"]

Kinds == {"tatum", "beat", "bar", "section", "segment"}

\* The quanta there are: the members of the collections, and quanta made
\* with AudioQuantum(...) whose container was never assigned, or is None.
AllQuanta ==
  { Member(p[1], p[2]) : p \in { r \in NavFields \X (1..MaxNodes) :
                                 world[r[1]] # NoneV /\ r[2] <= Len(world[r[1]].items) } }
    \cup { Loose(k, c) : k \in Kinds, c \in {Unset, NoneRef} }

Steps == (-MaxStep)..MaxStep

\* One call of a navigator.  The navigators change neither a quantum nor a
\* collection, so the calls that follow the first reach no state the first
\* does not: one call is taken in a behaviour.
Call(op, q, step, r) ==
  /\ lastN.op = "init"
  /\ lastN' =[op |-> op, q |-> q, step |-> step, ret |-> r]
  /\ UNCHANGED world

NextNav ==
  \/ \E q \in AllQuanta :
       Call("parent", q, 0, parent(q)) /\ UNCHANGED <<analysisVars, audioVars>>
  \/ \E q \in AllQuanta :
       Call("children", q, 0, children(q)) /\ UNCHANGED <<analysisVars, audioVars>>
  \/ \E q \in AllQuanta, step \in Steps :
       Call("prev", q, step, prev(q, step)) /\ UNCHANGED <<analysisVars, audioVars>>
  \/ \E q \in AllQuanta, step \in Steps :
       Call("next", q, step, next(q, step)) /\ UNCHANGED <<analysisVars, audioVars>>
  \/ \E q \in AllQuanta :
       Call("group", q, 0, group(q)) /\ UNCHANGED <<analysisVars, audioVars>>
  \/ \E q \in AllQuanta :
       Call("local_context", q, 0, local_context(q))
         /\ UNCHANGED <<analysisVars, audioVars>>

InitIdleAudio ==
  /\ fmt =[sampleRate |-> 1, cols |-> 0]
  /\ bufs = <<>>
  /\ nops = 0
  /\ lastA = [op |-> "init"]

InitIdleNav ==
  /\ world = [op |-> "none"]
  /\ lastN = [op |-> "init"]

Init == InitAnalysis /\ InitIdleAudio /\ InitIdleNav

Next ==
  \/ \E name \in AccessNames, resp \in Responses :
       Access(name, resp) /\ UNCHANGED <<audioVars, navVars>>
  \/ \E failAt \in 0..Len(CACHED_VARIABLES), resp \in {"error", "malformed"} :
       Refresh(failAt, resp) /\ UNCHANGED <<audioVars, navVars>>

Spec == Init /\ [][Next]_vars

\* One idle AudioAnalysis beside the audio machine.
InitIdleAnalysis ==
  /\ id = "silence"
  /\ parsers = NoParsers
  /\ cache = [f \in Fields |-> NoneV]
  /\ fetched = NoCalls
  /\ nrefresh = 0
  /\ last = [op |-> "init", name |-> "", pre |-> NoneV, ret |-> NoneV,
             raised |-> FALSE, err |-> "none", calls |-> 0, rcalls |-> NoCalls]

InitNavRun == InitIdleAnalysis /\ InitIdleAudio /\ InitNav

SpecNav == InitNavRun /\ [][NextNav]_vars

InitAudioRun == InitIdleAnalysis /\ InitAudio /\ InitIdleNav

SpecAudio == InitAudioRun /\ [][NextAudio]_vars

(***************************************************************************)
(* Claims about AudioAnalysis, checked under Spec.                         *)
(***************************************************************************)
IsCached(v) == v # NoneV

\* C1: with no refresh in between, a cached field is fetched at most once
\* after the fetch has succeeded: a field holds a value exactly when one
\* value was stored in it since it was last reset, and an access to a field
\* that holds a value calls no getter, raises nothing, returns the cached
\* value and leaves it in place.
C1_FetchedOnce ==
  /\ \A f \in Fields : fetched[f] = (IF IsCached(cache[f]) THEN 1 ELSE 0)
  /\ (last.op = "access" /\ last.name \in Fields /\ IsCached(last.pre))
       => /\ last.calls = 0
          /\ ~last.raised
          /\ last.ret = last.pre
          /\ cache[last.name] = last.pre

\* C1 witness: a field holding a false value (an empty collection, 0.0) was
\* read again and answered from the cache.
C1_Witness ==
  /\ last.op = "access" /\ last.name \in Fields
  /\ IsCached(last.pre) /\ ~Truthy(last.pre)
  /\ last.calls = 0 /\ last.ret = last.pre

\* C2: an access whose fetch or parse fails raises, stores nothing (the field
\* stays None and every other field keeps its value), and the next access to
\* that field calls the getter again.
C2_FailureStoresNothing ==
  [][ /\ (last'.op = "access" /\ last'.raised)
         => /\ cache' = cache
            /\ cache'[last'.name] = NoneV
            /\ last'.calls = 1
      /\ (last.op = "access" /\ last.raised /\ last'.op = "access"
          /\ last'.name = last.name)
         => last'.calls = 1 ]_vars

\* C2 witness: an access failed in the parse function.
C2_Witness ==
  /\ last.op = "access" /\ last.raised /\ last.err = "parse"
  /\ \E f \in Fields : f # last.name /\ IsCached(cache[f])

\* C3: a cached field loses or changes its value only in a refresh, and when
\* refreshCachedVariables returns every one of the 14 fields holds a value
\* that was stored by exactly one getter call made during that refresh.
C3_RefreshRefetchesAll ==
  /\ []( (last.op = "refresh" /\ ~last.raised)
           => \A f \in Fields :
                IsCached(cache[f]) /\ last.rcalls[f] = 1 /\ fetched[f] = 1 )
  /\ [][ (\E f \in Fields : IsCached(cache[f]) /\ cache'[f] # cache[f])
           => last'.op = "refresh" ]_vars

\* C3 witness: a second refresh returned, so every field was cached before it.
C3_Witness ==
  /\ last.op = "refresh" /\ ~last.raised /\ nrefresh = 2
  /\ \A f \in Fields : last.rcalls[f] = 1

\* C10: every cached quantum collection has the AudioAnalysis as container
\* and every member's container is that collection, after any sequence of
\* accesses and refreshes.
C10_Attached ==
  \A f \in Fields :
    cache[f].type = "AudioQuantumList"
      => /\ cache[f].container = AnalysisRef
         /\ \A i \in 1..Len(cache[f].items) :
              cache[f].items[i].container = ListRef(cache[f].oid)

\* C10 witness: a collection with members is cached after a refresh replaced
\* the one fetched before.
C10_Witness ==
  /\ cache["bars"].type = "AudioQuantumList"
  /\ Len(cache["bars"].items) = 2
  /\ cache["bars"].oid.epoch >= 1
  /\ cache["bars"].items[2].container = ListRef(cache["bars"].oid)

(***************************************************************************)
(* Claims about AudioData, getpieces and mix, checked under SpecAudio.     *)
(***************************************************************************)
\* The capacity of a buffer: the rows of its array.
Capacity(b) == IF b.data = NoneV THEN 0 ELSE Rows(b.data)

\* C4: in every reachable state, 0 <= endindex <= capacity for every
\* AudioData object.
C4_EndindexWithinCapacity ==
  \A i \in Slots : 0 <= bufs[i].endindex /\ bufs[i].endindex <= Capacity(bufs[i])

\* C5: a successful self.append(other) that self has the capacity for
\* copies exactly other's rows [0, other.endindex) to self's rows
\* [endindex, endindex + other.endindex), advances self.endindex by
\* other.endindex, and leaves every other row of self, and other, unchanged;
\* also when other's capacity is larger than its endindex.
C5_AppendCopiesValidRows ==
  [][ ( /\ lastA'.op = "append" /\ ~lastA'.raised
        /\ bufs[lastA'.self].endindex + BufLen(bufs[lastA'.other])
             <= Capacity(bufs[lastA'.self]) )
        => LET old == bufs[lastA'.self]
               new == bufs'[lastA'.self]
               other == bufs[lastA'.other]
               n == Rows(old.data)
           IN /\ new.endindex = old.endindex + other.endindex
              /\ Rows(new.data) = n
              /\ \A k \in 1..other.endindex :
                   At(new.data, old.endindex + k) = At(other.data, k)
              /\ SliceRead(new.data, 0, old.endindex)
                   = SliceRead(old.data, 0, old.endindex)
              /\ SliceRead(new.data, old.endindex + other.endindex, n)
                   = SliceRead(old.data, old.endindex + other.endindex, n)
              /\ bufs'[lastA'.other] = other ]_vars

\* C6: self.append(other) raises whenever self.endindex + len(other) exceeds
\* self's capacity, whatever len(other) is, and then leaves self unchanged.
C6_AppendBeyondCapacityRaises ==
  [][ ( /\ lastA'.op = "append"
        /\ bufs[lastA'.self].endindex + BufLen(bufs[lastA'.other])
             > Capacity(bufs[lastA'.self]) )
        => (lastA'.raised /\ bufs' = bufs) ]_vars

\* The rows of source that getpieces slices for the quantum q: both ends are
\* converted to sample offsets and clipped to the rows of the source.
PieceRows(source, q) ==
  LET n == Rows(source.data)
  IN Min(ToSample(q.start + q.duration, source.sampleRate), n)
       - Min(ToSample(q.start, source.sampleRate), n)

RECURSIVE SumPieceRows(_, _)
SumPieceRows(source, segs) ==
  IF segs = <<>> THEN 0
  ELSE PieceRows(source, Head(segs)) + SumPieceRows(source, Tail(segs))

\* C7, as claimed: the buffer getpieces returns has endindex equal to the
\* sum of int(q.duration * sampleRate) and capacity 100000 more, and the rows
\* appended for each quantum number int(q.duration * sampleRate).
C7_EndindexIsSumOfDurations ==
  (lastA.op = "getpieces" /\ ~lastA.raised)
    => LET source == bufs[lastA.self]
           new == bufs[lastA.ret]
           total == SumDur(lastA.segs, source.sampleRate)
       IN /\ new.endindex = total
          /\ Capacity(new) = total + GOODWILL
          /\ \A k \in 1..Len(lastA.segs) :
               PieceRows(source, lastA.segs[k])
                 = ToSample(lastA.segs[k].duration, source.sampleRate)

\* C7, amended: getpieces on a source with data returns; the capacity of the
\* buffer it returns is the sum of int(q.duration * sampleRate) plus 100000,
\* and its endindex is the sum of the rows sliced for each quantum,
\* min(int((q.start + q.duration) * sampleRate), n) - min(int(q.start * sampleRate), n)
\* for a source of n rows.
C7_EndindexIsSumOfSlicedRows ==
  lastA.op = "getpieces"
    => LET source == bufs[lastA.self]
       IN IF source.data = NoneV THEN lastA.raised
          ELSE /\ ~lastA.raised
               /\ Capacity(bufs[lastA.ret])
                    = SumDur(lastA.segs, source.sampleRate) + GOODWILL
               /\ bufs[lastA.ret].endindex = SumPieceRows(source, lastA.segs)
               /\ bufs[lastA.ret].sampleRate = source.sampleRate

\* C7 witness: getpieces returned a buffer whose endindex is not the sum of
\* the durations' sample counts.
C7_Witness ==
  /\ lastA.op = "getpieces" /\ ~lastA.raised
  /\ Len(lastA.segs) = 2
  /\ bufs[lastA.ret].endindex
       > SumDur(lastA.segs, bufs[lastA.self].sampleRate)

\* C8: mix(A, B, ratio) on two buffers with arrays returns the input whose
\* endindex is larger (A when they are equal), that buffer's endindex and row
\* count are unchanged, and its rows are its scaled rows plus, within the
\* other buffer's [0, endindex), the other's scaled rows.
C8_MixReturnsLonger ==
  [][ ( /\ lastA'.op = "mix"
        /\ bufs[lastA'.self].data # NoneV
        /\ bufs[lastA'.other].data # NoneV )
        => LET a == bufs[lastA'.self]
               b == bufs[lastA'.other]
               num == lastA'.mix.num
               den == lastA'.mix.den
               aLonger == a.endindex >= b.endindex
               long == IF aLonger THEN a ELSE b
               short == IF aLonger THEN b ELSE a
               longNum == IF aLonger THEN num ELSE den - num
               shortNum == IF aLonger THEN den - num ELSE num
               ret == IF lastA'.ret = 0 THEN long ELSE bufs'[lastA'.ret]
           IN /\ ~lastA'.raised
              /\ lastA'.ret = (IF aLonger THEN lastA'.self ELSE lastA'.other)
              /\ Len(bufs') = Len(bufs)
              /\ ret.endindex = long.endindex
              /\ Rows(ret.data) = Rows(long.data)
              /\ ret.data.cols = long.data.cols
              /\ \A k \in 1..Min(Rows(long.data), Len(long.data.head) + Len(short.data.head) + 1) :
                   At(ret.data, k)
                     = Wrap16(TruncDiv(At(long.data, k) * longNum, den)
                              + (IF k <= short.endindex
                                 THEN TruncDiv(At(short.data, k) * shortNum, den)
                                 ELSE 0)) ]_vars

\* C11: in every reachable state len(buffer) is the logical length endindex
\* of the buffer, not the rows allocated for it, and 0 for a buffer with no
\* array.
C11_LenIsEndindex ==
  \A i \in 1..Len(bufs) :
    BufLen(bufs[i]) = (IF bufs[i].data = NoneV THEN 0 ELSE bufs[i].endindex)

(***************************************************************************)
(* Claims about AudioQuantum navigation, checked under SpecNav.            *)
(***************************************************************************)
\* The quantum has no container assigned.
NoContainer(q) == q.obj.container \in {Unset, NoneRef}

\* The lookup of parent() or children() misses: no container, no related
\* kind, the related collection absent, or no member of it matching.
LookupMiss(op, q) ==
  LET table == IF op = "parent" THEN pars ELSE chils
      filt == IF op = "parent" THEN "overlap" ELSE "are_contained_by"
  IN \/ NoContainer(q)
     \/ q.obj.kind \notin DOMAIN table
     \/ world[table[q.obj.kind]] = NoneV
     \/ that(table[q.obj.kind], filt, q.obj) = <<>>

\* C9: parent() and children() on a quantum whose lookup misses, and prev()
\* and next() on a quantum with no container, return that same quantum and
\* raise nothing.
C9_SoftFailure ==
  ( \/ lastN.op \in {"parent", "children"} /\ LookupMiss(lastN.op, lastN.q)
    \/ lastN.op \in {"prev", "next"} /\ NoContainer(lastN.q) )
    => /\ ~lastN.ret.raised
       /\ lastN.ret.type = "AudioQuantum"
       /\ lastN.ret.q = lastN.q

\* An attached quantum of kind tatum, beat or bar whose parent collection
\* exists.
HasParentCollection(q) ==
  /\ q.in # ""
  /\ q.obj.kind \in {"tatum", "beat", "bar"}
  /\ world[pars[q.obj.kind]] # NoneV

\* C12: for an attached tatum, beat or bar whose parent collection exists,
\* group() returns a collection that contains the quantum, and
\* local_context() returns (index, length) with 0 <= index < length.
C12_GroupContainsSelf ==
  (lastN.op \in {"group", "local_context"} /\ HasParentCollection(lastN.q)) =>
    /\ lastN.op = "group" =>
         /\ ~lastN.ret.raised
         /\ lastN.ret.type = "AudioQuantumList"
         /\ \E i \in 1..Len(lastN.ret.items) : lastN.ret.items[i] = lastN.q
    /\ lastN.op = "local_context" =>
         /\ ~lastN.ret.raised
         /\ lastN.ret.type = "tuple"
         /\ 0 <= lastN.ret.items[1]
         /\ lastN.ret.items[1] < lastN.ret.items[2]

\* C13: for a quantum at index i of its collection of length n and any
\* step, prev and next return the element at the stepped position (i - step
\* clamped below at 0 for prev, i + step for next) when that position lies in
\* 0..n-1, and the quantum itself otherwise; never another element.
C13_StepWithinCollection ==
  (lastN.op \in {"prev", "next"} /\ lastN.q.in # "") =>
    LET q == lastN.q
        i == q.at - 1
        n == Len(world[q.in].items)
        pos == IF lastN.op = "prev" THEN Max(i - lastN.step, 0) ELSE i + lastN.step
    IN /\ ~lastN.ret.raised
       /\ lastN.ret.type = "AudioQuantum"
       /\ lastN.ret.q = (IF 0 <= pos /\ pos <= n - 1 THEN Member(q.in, pos + 1) ELSE q)

====
